---- MODULE Spec2Model ----
(***************************************************************************)
(* Model of src/main.py: ProductionCO2Monitor, the long-running CO2        *)
(* monitor for the Raspberry Pi Pico W.  The state is the fields of the    *)
(* monitor object set in __init__, the module-level LIBRARIES_STATUS, the  *)
(* clock read by time.time(), the position of production_main_loop (pc)    *)
(* and the collaborator calls made by the last step (trace).               *)
(*                                                                         *)
(* Reals are kept as integers in tenths (22.0 degrees is 220).             *)
(***************************************************************************)
EXTENDS Integers, Sequences, FiniteSets

VARIABLES
    LIBRARIES_STATUS,   \* main.py:74  library name -> available
    watchdog,           \* main.py:100
    wlan,               \* main.py:101
    mqtt_client,        \* main.py:102
    scd40,              \* main.py:103
    display,            \* main.py:104
    led,                \* main.py:105
    mqtt_connected,     \* main.py:108
    startup_time,       \* main.py:110
    last_sensor_read,   \* main.py:113
    last_publish,       \* main.py:114
    last_gc,            \* main.py:116
    last_connection_check, \* main.py:117
    last_status_report, \* main.py:118
    last_preventive_reset, \* main.py:119
    co2_ppm,            \* main.py:122
    temperature_c,      \* main.py:123  (tenths)
    humidity_percent,   \* main.py:124  (tenths)
    thi_value,          \* main.py:125  (tenths)
    sensor_error_count, \* main.py:131
    mqtt_error_count,   \* main.py:132
    wifi_error_count,   \* main.py:133
    now,                \* the value time.time() returns
    clock_step,         \* seconds ntptime.settime() (271) has moved the clock by
    free_mem,           \* main.py:172  local of memory_management_aggressive
    pc,                 \* position in production_main_loop
    passes,             \* number of passes of the while loop started (569)
    feeds,              \* watchdog.feed() calls made since the pass started
    sampled,            \* what the sensor answered to the read of this pass
    publish_history,    \* what the publish step (528-530) did in the previous
                        \* pass and in this one
    trace               \* collaborator calls the last step made, in order

vars == << LIBRARIES_STATUS, watchdog, wlan, mqtt_client, scd40, display, led,
           mqtt_connected, startup_time, last_sensor_read, last_publish,
           last_gc, last_connection_check, last_status_report,
           last_preventive_reset, co2_ppm, temperature_c, humidity_percent,
           thi_value, sensor_error_count, mqtt_error_count, wifi_error_count,
           now, clock_step, free_mem, pc, passes, feeds, sampled,
           publish_history, trace >>

\* None, for a handle
None == "None"
\* None and a number, for a field that holds a number or None
Nil == << >>
Some(v) == << v >>

-----------------------------------------------------------------------------
(* Program constants, main.py:55-71 *)

SENSOR_READ_INTERVAL == 30
PUBLISH_INTERVAL == 30
GC_INTERVAL == 60
SYSTEM_RESET_INTERVAL == 86400
CONNECTION_RETRY_INTERVAL == 300
STATUS_REPORT_INTERVAL == 3600
MEMORY_WARNING_THRESHOLD == 20000
MEMORY_CRITICAL_THRESHOLD == 12000
MEMORY_EMERGENCY_THRESHOLD == 8000
MAX_MQTT_FAILURES == 10
MAX_SENSOR_FAILURES == 15
WIFI_POLLS == 30
CO2_MAX == 50000

-----------------------------------------------------------------------------
(* Bounds of the model *)

\* passes of the while loop explored by Spec
MaxPass == 2
\* passes explored by SpecSteady
MaxSteadyPass == 3
\* passes explored by SpecOutage
MaxOutagePass == 11
\* passes explored by SpecSensorFaults
MaxSensorPass == 16
\* passes explored by SpecDegraded
MaxDegradedPass == 2
\* passes explored by SpecSession
MaxSessionPass == 3

-----------------------------------------------------------------------------
(* Inputs: what the collaborators may answer *)

\* LIBRARIES_STATUS as check_library_availability leaves it
AllLibraries == [ntptime |-> TRUE, scd4x |-> TRUE, tm1637 |-> TRUE, umqtt |-> TRUE]
NoBroker == [ntptime |-> TRUE, scd4x |-> TRUE, tm1637 |-> TRUE, umqtt |-> FALSE]
SensorOnly == [ntptime |-> FALSE, scd4x |-> TRUE, tm1637 |-> FALSE, umqtt |-> FALSE]

\* what the SCD4X driver exposes on one read: CO2, temperature, and the
\* humidity under one of the two attribute names (the other is missing)
Sample(c, t, h, rh) == [CO2 |-> c, temperature |-> t, humidity |-> h, relative_humidity |-> rh]
SensorSamples ==
    { Sample(Some(800), Some(220), Some(550), Nil),
      Sample(Some(50001), Some(250), Some(600), Nil),
      Sample(Some(0 - 1), Some(220), Some(550), Nil),
      Sample(Some(800), Nil, Nil, Some(550)),
      Sample(Some(800), Some(220), Some(0), Nil) }

\* gc.mem_free() around the three thresholds
MemSamples == {7500, 7999, 8000, 11999, 12000, 19999, 20000, 20001}

\* seconds from the start of one pass to the start of the next
PassSeconds == {1, SENSOR_READ_INTERVAL, CONNECTION_RETRY_INTERVAL}

\* step of the clock made by ntptime.settime()
NtpSteps == {0, 2 * SYSTEM_RESET_INTERVAL}

\* unsuccessful polls of wlan.isconnected() before the link is up;
\* WIFI_POLLS means it never came up
PollOutcomes == {0, 1, WIFI_POLLS}

\* what the link does during connect_wifi_robust: "up" (isconnected() is
\* already true at 236), "error" (wlan.connect raises at 245), or "join"
\* with the number of polls of the loop at 248 that find the link still down
LinkOutcomes ==
    { [kind |-> "up", polls |-> 0], [kind |-> "error", polls |-> 0] }
    \cup { [kind |-> "join", polls |-> k] : k \in PollOutcomes }

\* LinkOutcomes and a board without a usable interface: "absent"
\* (network.WLAN raises at 233; on an interface already held, wlan.connect
\* raises)
DegradedLinkOutcomes == LinkOutcomes \cup { [kind |-> "absent", polls |-> 0] }

-----------------------------------------------------------------------------
(* Helpers *)

RECURSIVE Repeat(_, _)
Repeat(s, n) == IF n = 0 THEN << >> ELSE s \o Repeat(s, n - 1)

Count(s, e) == Cardinality({i \in 1..Len(s) : s[i] = e})

Has(s, e) == \E i \in 1..Len(s) : s[i] = e

\* e occurs in s, and every occurrence of f comes after the first e
Before(s, e, f) ==
    \E i \in 1..Len(s) : s[i] = e /\ \A j \in 1..Len(s) : s[j] = f => i < j

\* write_log(message, level): the entry handed to the log file
write_log(message, level) == << "log:" \o level \o ":" \o message >>

\* feed_watchdog_safe
feed_watchdog_safe(wd) == IF wd # None THEN << "watchdog.feed" >> ELSE << >>

-----------------------------------------------------------------------------
(* The methods of ProductionCO2Monitor, each as the values it leaves in the *)
(* fields it may assign, the collaborator calls it makes (ev) and what it   *)
(* returns (ret); reset is TRUE when it ends in machine.reset().            *)

\* calculate_thi_efficient taking a missing humidity for 0
calculate_thi_humid_default(temp, humid) ==
    IF temp = Nil
    THEN Nil
    ELSE LET h == IF humid = Nil THEN 0 ELSE humid[1]
         IN Some((81000 * temp[1] + h * (99 * temp[1] - 14300) + 46300000 + 50000)
                 \div 100000)

\* calculate_thi_efficient: round(0.81*T + 0.01*H*(0.99*T - 14.3) + 46.3, 1),
\* in tenths, from T and H in tenths
calculate_thi_efficient(temp, humid) ==
    IF temp = Nil \/ humid = Nil
    THEN Nil
    ELSE Some((81000 * temp[1] + humid[1] * (99 * temp[1] - 14300) + 46300000 + 50000)
              \div 100000)

\* the zones of memory_management_aggressive (174, 186, 197)
MemoryZone(free) ==
    IF free < MEMORY_EMERGENCY_THRESHOLD THEN "emergency"
    ELSE IF free < MEMORY_CRITICAL_THRESHOLD THEN "critical"
    ELSE IF free < MEMORY_WARNING_THRESHOLD THEN "warning"
    ELSE "ok"

\* memory_management_aggressive comparing with <= instead of <
memory_management_inclusive(free) ==
    LET zone == MemoryZone(free - 1)
    IN [ display |-> IF zone = "emergency" THEN None ELSE display,
         mqtt_client |-> IF zone = "critical" THEN None ELSE mqtt_client,
         mqtt_connected |-> IF zone = "critical" /\ mqtt_client # None THEN FALSE
                            ELSE mqtt_connected,
         ev |-> IF zone = "emergency"
                THEN (IF display # None THEN << "display.show" >> ELSE << >>)
                     \o write_log("EMERGENCY_RESET", "CRITICAL") \o << "machine.reset" >>
                ELSE IF zone = "critical"
                THEN (IF mqtt_client # None THEN << "mqtt.disconnect" >> ELSE << >>)
                     \o write_log("MEMORY_CRITICAL", "WARNING")
                ELSE IF zone = "warning" THEN write_log("MEMORY_WARNING", "WARNING")
                ELSE << >>,
         reset |-> zone = "emergency" ]

\* memory_management_aggressive going on after the emergency branch instead
\* of ending in machine.reset()
memory_management_no_reset(free) ==
    LET zone == MemoryZone(free)
    IN [ display |-> IF zone = "emergency" THEN None ELSE display,
         mqtt_client |-> IF zone = "critical" THEN None ELSE mqtt_client,
         mqtt_connected |-> IF zone = "critical" /\ mqtt_client # None THEN FALSE
                            ELSE mqtt_connected,
         ev |-> IF zone = "emergency"
                THEN (IF display # None THEN << "display.show" >> ELSE << >>)
                     \o write_log("EMERGENCY_RESET", "CRITICAL")
                ELSE IF zone = "critical"
                THEN (IF mqtt_client # None THEN << "mqtt.disconnect" >> ELSE << >>)
                     \o write_log("MEMORY_CRITICAL", "WARNING")
                ELSE IF zone = "warning" THEN write_log("MEMORY_WARNING", "WARNING")
                ELSE << >>,
         reset |-> FALSE ]

\* memory_management_aggressive releasing the broker handle at 193 without
\* marking the broker Disconnected at 194
memory_management_keep_connected(free) ==
    LET zone == MemoryZone(free)
    IN [ display |-> IF zone = "emergency" THEN None ELSE display,
         mqtt_client |-> IF zone = "critical" THEN None ELSE mqtt_client,
         mqtt_connected |-> mqtt_connected,
         ev |-> IF zone = "emergency"
                THEN (IF display # None THEN << "display.show" >> ELSE << >>)
                     \o write_log("EMERGENCY_RESET", "CRITICAL") \o << "machine.reset" >>
                ELSE IF zone = "critical"
                THEN (IF mqtt_client # None THEN << "mqtt.disconnect" >> ELSE << >>)
                     \o write_log("MEMORY_CRITICAL", "WARNING")
                ELSE IF zone = "warning" THEN write_log("MEMORY_WARNING", "WARNING")
                ELSE << >>,
         reset |-> zone = "emergency" ]

\* memory_management_aggressive with gc.mem_free() = free
memory_management_aggressive(free) ==
    IF free < MEMORY_EMERGENCY_THRESHOLD
    THEN [ display |-> None, mqtt_client |-> mqtt_client,
           mqtt_connected |-> mqtt_connected,
           ev |-> (IF display # None THEN << "display.show" >> ELSE << >>)
                  \o write_log("EMERGENCY_RESET", "CRITICAL")
                  \o << "machine.reset" >>,
           reset |-> TRUE ]
    ELSE IF free < MEMORY_CRITICAL_THRESHOLD
    THEN [ display |-> display,
           mqtt_client |-> None,
           mqtt_connected |-> IF mqtt_client # None THEN FALSE ELSE mqtt_connected,
           ev |-> (IF mqtt_client # None THEN << "mqtt.disconnect" >> ELSE << >>)
                  \o write_log("MEMORY_CRITICAL", "WARNING"),
           reset |-> FALSE ]
    ELSE IF free < MEMORY_WARNING_THRESHOLD
    THEN [ display |-> display, mqtt_client |-> mqtt_client,
           mqtt_connected |-> mqtt_connected,
           ev |-> write_log("MEMORY_WARNING", "WARNING"),
           reset |-> FALSE ]
    ELSE [ display |-> display, mqtt_client |-> mqtt_client,
           mqtt_connected |-> mqtt_connected, ev |-> << >>, reset |-> FALSE ]

\* one turn of the loop at 248 that finds the link still down: the poll at
\* 249, then sleep(1) and feed_watchdog_safe()
wifi_poll_wait_unfed == << "wlan.poll" >>
wifi_poll_wait == << "wlan.poll" >> \o feed_watchdog_safe(watchdog)

\* 232-234: the interface is acquired on the first call
wifi_acquire == IF wlan = None THEN << "WLAN", "wlan.active(True)" >> ELSE << >>

\* 239-263 not counting a timeout as a link failure
wifi_connect_attempt_uncounted(link) ==
    LET bounce == << "wlan.active(False)", "wlan.active(True)", "wlan.connect" >>
    IN IF link.kind \in {"error", "absent"}
       THEN [ wlan |-> "WLAN", wifi_error_count |-> wifi_error_count + 1,
              ev |-> bounce \o write_log("WiFi error", "ERROR"), ret |-> FALSE ]
       ELSE IF link.polls < WIFI_POLLS
       THEN [ wlan |-> "WLAN", wifi_error_count |-> 0,
              ev |-> bounce \o Repeat(wifi_poll_wait, link.polls) \o << "wlan.poll" >>
                     \o write_log("WiFi connected", "INFO"),
              ret |-> TRUE ]
       ELSE [ wlan |-> "WLAN", wifi_error_count |-> wifi_error_count,
              ev |-> bounce \o Repeat(wifi_poll_wait, WIFI_POLLS)
                     \o write_log("WiFi timeout", "ERROR"),
              ret |-> FALSE ]

\* 239-263: the connection attempt from a link that is down: the interface
\* reset, wlan.connect (which raises for "error"), and the loop at 248
wifi_connect_attempt(link) ==
    LET bounce == << "wlan.active(False)", "wlan.active(True)", "wlan.connect" >>
    IN IF link.kind \in {"error", "absent"}
       THEN [ wlan |-> "WLAN", wifi_error_count |-> wifi_error_count + 1,
              ev |-> bounce \o write_log("WiFi error", "ERROR"), ret |-> FALSE ]
       ELSE IF link.polls < WIFI_POLLS
       THEN [ wlan |-> "WLAN", wifi_error_count |-> 0,
              ev |-> bounce \o Repeat(wifi_poll_wait, link.polls) \o << "wlan.poll" >>
                     \o write_log("WiFi connected", "INFO"),
              ret |-> TRUE ]
       ELSE [ wlan |-> "WLAN", wifi_error_count |-> wifi_error_count + 1,
              ev |-> bounce \o Repeat(wifi_poll_wait, WIFI_POLLS)
                     \o write_log("WiFi timeout", "ERROR"),
              ret |-> FALSE ]

\* connect_wifi_robust going on to the connection attempt although
\* isconnected() answered True at 236
connect_wifi_robust_unchecked(link) ==
    LET head == << "connect_wifi_robust" >> \o wifi_acquire
        try == wifi_connect_attempt([kind |-> "join", polls |-> 0])
    IN IF link.kind = "absent" /\ wlan = None
       THEN [ wlan |-> wlan, wifi_error_count |-> wifi_error_count + 1,
              ev |-> << "connect_wifi_robust", "WLAN" >> \o write_log("WiFi error", "ERROR"),
              ret |-> FALSE ]
       ELSE IF link.kind = "up"
       THEN [ try EXCEPT !.ev = head \o << "wlan.isconnected:True" >> \o @ ]
       ELSE [ wifi_connect_attempt(link) EXCEPT
                !.ev = head \o << "wlan.isconnected:False" >> \o @ ]

\* connect_wifi_robust, the link doing what `link` says
connect_wifi_robust(link) ==
    LET head == << "connect_wifi_robust" >> \o wifi_acquire
    IN IF link.kind = "absent" /\ wlan = None
       THEN [ wlan |-> wlan, wifi_error_count |-> wifi_error_count + 1,
              ev |-> << "connect_wifi_robust", "WLAN" >> \o write_log("WiFi error", "ERROR"),
              ret |-> FALSE ]
       ELSE IF link.kind = "up"
       THEN [ wlan |-> "WLAN", wifi_error_count |-> wifi_error_count,
              ev |-> head \o << "wlan.isconnected:True" >>, ret |-> TRUE ]
       ELSE [ wifi_connect_attempt(link) EXCEPT
                !.ev = head \o << "wlan.isconnected:False" >> \o @ ]

\* sync_time_safe.  ok = FALSE: ntptime.settime() raises; otherwise it moves
\* the clock forward by step
sync_time_safe(ok, step) ==
    IF ~LIBRARIES_STATUS.ntptime
    THEN [ now |-> now, ev |-> << >>, ret |-> FALSE ]
    ELSE IF ~ok
    THEN [ now |-> now, ev |-> << "ntptime.settime" >> \o write_log("NTP failed", "WARNING"),
           ret |-> FALSE ]
    ELSE [ now |-> now + step,
           ev |-> << "ntptime.settime" >> \o write_log("NTP synced", "INFO"),
           ret |-> TRUE ]

\* connect_mqtt_robust without the cleanup at 284-289: the old session is
\* overwritten by the new client without a disconnect
connect_mqtt_robust_no_cleanup(broker) ==
    IF ~LIBRARIES_STATUS.umqtt
    THEN [ mqtt_client |-> mqtt_client, mqtt_connected |-> mqtt_connected,
           mqtt_error_count |-> mqtt_error_count, ev |-> << "connect_mqtt_robust" >>,
           ret |-> FALSE ]
    ELSE IF broker = "ok"
    THEN [ mqtt_client |-> "MQTTClient", mqtt_connected |-> TRUE,
           mqtt_error_count |-> 0,
           ev |-> << "connect_mqtt_robust", "MQTTClient", "mqtt.connect" >>
                  \o write_log("MQTT connected", "INFO"),
           ret |-> TRUE ]
    ELSE [ mqtt_client |-> "MQTTClient", mqtt_connected |-> FALSE,
           mqtt_error_count |-> mqtt_error_count + 1,
           ev |-> << "connect_mqtt_robust", "MQTTClient", "mqtt.connect" >>
                  \o write_log("MQTT error", "ERROR"),
           ret |-> FALSE ]

\* connect_mqtt_robust.  broker is "ok" or "refused" (MQTTClient.connect()
\* raises at 299, the new client object stays in self.mqtt_client)
connect_mqtt_robust(broker) ==
    IF ~LIBRARIES_STATUS.umqtt
    THEN [ mqtt_client |-> mqtt_client, mqtt_connected |-> mqtt_connected,
           mqtt_error_count |-> mqtt_error_count, ev |-> << "connect_mqtt_robust" >>,
           ret |-> FALSE ]
    ELSE LET cleanup == << "connect_mqtt_robust" >>
                        \o (IF mqtt_client # None THEN << "mqtt.disconnect" >> ELSE << >>)
         IN IF broker = "ok"
            THEN [ mqtt_client |-> "MQTTClient", mqtt_connected |-> TRUE,
                   mqtt_error_count |-> 0,
                   ev |-> cleanup \o << "MQTTClient", "mqtt.connect" >>
                          \o write_log("MQTT connected", "INFO"),
                   ret |-> TRUE ]
            ELSE [ mqtt_client |-> "MQTTClient", mqtt_connected |-> FALSE,
                   mqtt_error_count |-> mqtt_error_count + 1,
                   ev |-> cleanup \o << "MQTTClient", "mqtt.connect" >>
                          \o write_log("MQTT error", "ERROR"),
                   ret |-> FALSE ]

\* init_sensor_robust.  device is "ok", "absent" (SCD4X(i2c) raises at 319)
\* or "stuck" (stop/start_periodic_measurement raises at 322-324)
init_sensor_robust(device) ==
    IF ~LIBRARIES_STATUS.scd4x
    THEN [ scd40 |-> scd40, ev |-> write_log("SCD4X library unavailable", "WARNING"),
           ret |-> FALSE ]
    ELSE IF device = "absent"
    THEN [ scd40 |-> scd40,
           ev |-> << "SCD4X" >> \o write_log("Sensor init error", "ERROR"),
           ret |-> FALSE ]
    ELSE IF device = "stuck"
    THEN [ scd40 |-> "SCD4X",
           ev |-> << "SCD4X", "sensor.stop" >> \o write_log("Sensor init error", "ERROR"),
           ret |-> FALSE ]
    ELSE [ scd40 |-> "SCD4X",
           ev |-> << "SCD4X", "sensor.stop", "sensor.start" >>
                  \o write_log("Sensor initialized", "INFO"),
           ret |-> TRUE ]

\* init_display_robust.  ok = FALSE: TM1637(clk, dio) raises at 341
init_display_robust(ok) ==
    IF ~LIBRARIES_STATUS.tm1637
    THEN [ display |-> display, ev |-> write_log("TM1637 library unavailable", "WARNING") ]
    ELSE IF ok
    THEN [ display |-> "TM1637",
           ev |-> << "TM1637" >> \o write_log("Display initialized", "INFO") ]
    ELSE [ display |-> display,
           ev |-> << "TM1637" >> \o write_log("Display init error", "ERROR") ]

\* init_watchdog.  ok = FALSE: WDT(...) raises at 213
init_watchdog(ok) ==
    IF ok
    THEN [ watchdog |-> "WDT", ev |-> << "WDT" >> \o write_log("Watchdog initialized", "INFO") ]
    ELSE [ watchdog |-> watchdog,
           ev |-> << "WDT" >> \o write_log("Watchdog init failed", "ERROR") ]

\* Python truth of a number-or-None: None and 0 are false (the `or` at 363)
Truthy(x) == x # Nil /\ x[1] # 0

\* what the sensor does on one read_sensor_robust: "not_ready" (data_ready
\* false at 354), "error" (data_ready or CO2 raises) or "data" with a sample
SensorOutcomes ==
    { [kind |-> "not_ready", s |-> Sample(Nil, Nil, Nil, Nil)],
      [kind |-> "error", s |-> Sample(Nil, Nil, Nil, Nil)] }
    \cup { [kind |-> "data", s |-> x] : x \in SensorSamples }

\* no read of the sensor made
NotSampled == [kind |-> "none", s |-> Sample(Nil, Nil, Nil, Nil)]

\* the test at 386 taken one failure late
SensorLimitExceeded(n) == n > MAX_SENSOR_FAILURES

\* the test at 386: the failures have reached the limit
SensorLimitReached(n) == n >= MAX_SENSOR_FAILURES

\* read_sensor_robust; reinit is what the sensor does if init_sensor_robust
\* is called at 388
read_sensor_robust(sensor, reinit) ==
    LET same == [ co2_ppm |-> co2_ppm, temperature_c |-> temperature_c,
                  humidity_percent |-> humidity_percent, thi_value |-> thi_value,
                  sensor_error_count |-> sensor_error_count, scd40 |-> scd40,
                  ev |-> << >>, ret |-> FALSE ]
    IN IF scd40 = None
       THEN same
       ELSE IF sensor.kind = "not_ready"
       THEN [ same EXCEPT !.ev = << "sensor.data_ready" >> ]
       ELSE IF sensor.kind = "error"
       THEN LET n == sensor_error_count + 1
                again == init_sensor_robust(reinit)
            IN IF SensorLimitReached(n)
               THEN [ same EXCEPT
                        !.sensor_error_count = 0,
                        !.scd40 = again.scd40,
                        !.ev = << "sensor.data_ready" >>
                               \o write_log("Sensor read error", "ERROR")
                               \o write_log("Sensor failure limit reached, reinitializing", "WARNING")
                               \o again.ev ]
               ELSE [ same EXCEPT
                        !.sensor_error_count = n,
                        !.ev = << "sensor.data_ready" >>
                               \o write_log("Sensor read error", "ERROR") ]
       ELSE LET co2 == sensor.s.CO2
                temp == sensor.s.temperature
                humid == IF Truthy(sensor.s.humidity) THEN sensor.s.humidity
                         ELSE sensor.s.relative_humidity
                read == [ same EXCEPT
                            !.co2_ppm = co2,
                            !.temperature_c = temp,
                            !.humidity_percent = humid,
                            !.thi_value = calculate_thi_efficient(temp, humid),
                            !.ev = << "sensor.data_ready", "sensor.read" >> ]
            IN IF co2 # Nil /\ (co2[1] < 0 \/ co2[1] > CO2_MAX)
               THEN [ read EXCEPT !.ev = @ \o write_log("Invalid CO2", "WARNING") ]
               ELSE [ read EXCEPT !.sensor_error_count = 0, !.ret = TRUE ]

\* 525-526 advancing last_sensor_read only when read_sensor_robust succeeded
sensor_stamp_on_success(ret) == IF ret THEN now ELSE last_sensor_read

\* 525-526: last_sensor_read after read_sensor_robust returned ret
sensor_stamp(ret) == now

\* the publish calls publish_data_robust makes for the stored reading (436-451)
PublishCalls ==
    (IF co2_ppm # Nil THEN << "mqtt.publish:co2_data" >> ELSE << >>)
    \o (IF co2_ppm # Nil \/ temperature_c # Nil \/ humidity_percent # Nil
           \/ thi_value # Nil
        THEN << "mqtt.publish:sensor_data" >> ELSE << >>)

\* publish_data_robust without the return at 426-427: the broker is contacted
\* whether or not a session is held
publish_data_robust_unguarded(accepted) ==
    IF (accepted /\ mqtt_client # None) \/ PublishCalls = << >>
    THEN [ mqtt_connected |-> mqtt_connected, mqtt_error_count |-> 0,
           ev |-> PublishCalls, ret |-> TRUE ]
    ELSE [ mqtt_connected |-> FALSE, mqtt_error_count |-> mqtt_error_count + 1,
           ev |-> << Head(PublishCalls) >> \o write_log("MQTT publish error", "ERROR"),
           ret |-> FALSE ]

\* publish_data_robust.  accepted = FALSE: the first publish call raises
publish_data_robust(accepted) ==
    IF ~mqtt_connected \/ mqtt_client = None
    THEN [ mqtt_connected |-> mqtt_connected, mqtt_error_count |-> mqtt_error_count,
           ev |-> << >>, ret |-> FALSE ]
    ELSE IF accepted \/ PublishCalls = << >>
    THEN [ mqtt_connected |-> mqtt_connected, mqtt_error_count |-> 0,
           ev |-> PublishCalls, ret |-> TRUE ]
    ELSE [ mqtt_connected |-> FALSE, mqtt_error_count |-> mqtt_error_count + 1,
           ev |-> << Head(PublishCalls) >> \o write_log("MQTT publish error", "ERROR"),
           ret |-> FALSE ]

\* 529-530 advancing last_publish whatever publish_data_robust returned
publish_stamp_unconditional(ret) == now

\* 529-530: last_publish after publish_data_robust returned ret
publish_stamp(ret) == IF ret THEN now ELSE last_publish

\* send_system_status.  accepted = FALSE: the publish call raises (as it does
\* on a missing client); the error is logged and nothing else changes
send_system_status(accepted) ==
    IF ~mqtt_connected
    THEN << >>
    ELSE IF accepted /\ mqtt_client # None
    THEN << "mqtt.publish:system_status" >>
    ELSE << "mqtt.publish:system_status" >> \o write_log("Status report error", "ERROR")

\* check_connections_robust trying the broker only when the link is up or
\* has just come up
check_connections_robust_link_first(isconnected, link, broker) ==
    LET wifi == IF wlan = None \/ isconnected = "no"
                THEN connect_wifi_robust(link)
                ELSE [ wlan |-> wlan, wifi_error_count |-> wifi_error_count,
                       ev |-> << >>, ret |-> TRUE ]
        probe == IF wlan = None THEN << >>
                 ELSE IF isconnected = "yes" THEN << "wlan.isconnected:True" >>
                 ELSE IF isconnected = "no" THEN << "wlan.isconnected:False" >>
                 ELSE << "wlan.isconnected:raise" >>
        mqtt == IF wifi.ret /\ ~mqtt_connected /\ LIBRARIES_STATUS.umqtt
                THEN connect_mqtt_robust(broker)
                ELSE [ mqtt_client |-> mqtt_client, mqtt_connected |-> mqtt_connected,
                       mqtt_error_count |-> mqtt_error_count, ev |-> << >>,
                       ret |-> FALSE ]
    IN IF wlan # None /\ isconnected = "raise"
       THEN [ wlan |-> wlan, wifi_error_count |-> wifi_error_count,
              mqtt_client |-> mqtt_client, mqtt_connected |-> mqtt_connected,
              mqtt_error_count |-> mqtt_error_count, ev |-> probe, raised |-> TRUE ]
       ELSE [ wlan |-> wifi.wlan, wifi_error_count |-> wifi.wifi_error_count,
              mqtt_client |-> mqtt.mqtt_client, mqtt_connected |-> mqtt.mqtt_connected,
              mqtt_error_count |-> mqtt.mqtt_error_count,
              ev |-> probe \o wifi.ev \o mqtt.ev, raised |-> FALSE ]

\* check_connections_robust.  isconnected is the answer of wlan.isconnected()
\* at 486: "yes", "no" or "raise" (nothing catches it there); link and broker
\* drive the two connect calls
check_connections_robust(isconnected, link, broker) ==
    LET wifi == IF wlan = None \/ isconnected = "no"
                THEN connect_wifi_robust(link)
                ELSE [ wlan |-> wlan, wifi_error_count |-> wifi_error_count,
                       ev |-> << >>, ret |-> TRUE ]
        probe == IF wlan = None THEN << >>
                 ELSE IF isconnected = "yes" THEN << "wlan.isconnected:True" >>
                 ELSE IF isconnected = "no" THEN << "wlan.isconnected:False" >>
                 ELSE << "wlan.isconnected:raise" >>
        mqtt == IF ~mqtt_connected /\ LIBRARIES_STATUS.umqtt
                THEN connect_mqtt_robust(broker)
                ELSE [ mqtt_client |-> mqtt_client, mqtt_connected |-> mqtt_connected,
                       mqtt_error_count |-> mqtt_error_count, ev |-> << >>,
                       ret |-> FALSE ]
    IN IF wlan # None /\ isconnected = "raise"
       THEN [ wlan |-> wlan, wifi_error_count |-> wifi_error_count,
              mqtt_client |-> mqtt_client, mqtt_connected |-> mqtt_connected,
              mqtt_error_count |-> mqtt_error_count, ev |-> probe, raised |-> TRUE ]
       ELSE [ wlan |-> wifi.wlan, wifi_error_count |-> wifi.wifi_error_count,
              mqtt_client |-> mqtt.mqtt_client, mqtt_connected |-> mqtt.mqtt_connected,
              mqtt_error_count |-> mqtt.mqtt_error_count,
              ev |-> probe \o wifi.ev \o mqtt.ev, raised |-> FALSE ]

\* preventive_system_reset at clock value t: the calls it makes; it ends in
\* machine.reset() iff the interval has elapsed
preventive_system_reset(t) ==
    IF t - last_preventive_reset >= SYSTEM_RESET_INTERVAL
    THEN write_log("Preventive system reset", "INFO") \o write_log("Uptime", "INFO")
         \o << "machine.reset" >>
    ELSE << >>

-----------------------------------------------------------------------------
(* State after ProductionCO2Monitor() (98-142), before production_main_loop *)

timers == << last_sensor_read, last_publish, last_gc, last_connection_check,
             last_status_report >>
boot == << LIBRARIES_STATUS, startup_time, last_preventive_reset, clock_step >>
reading == << co2_ppm, temperature_c, humidity_percent, thi_value >>
session == << mqtt_client, mqtt_connected, mqtt_error_count >>

InitWith(libraries) ==
    /\ LIBRARIES_STATUS \in libraries
    /\ watchdog = None /\ wlan = None /\ mqtt_client = None
    /\ scd40 = None /\ display = None
    /\ led = "off"
    /\ mqtt_connected = FALSE
    /\ now = 0
    /\ clock_step = 0
    /\ startup_time = 0
    /\ last_sensor_read = 0 /\ last_publish = 0 /\ last_gc = 0
    /\ last_connection_check = 0 /\ last_status_report = 0
    /\ last_preventive_reset = 0
    /\ co2_ppm = Nil /\ temperature_c = Nil /\ humidity_percent = Nil
    /\ thi_value = Nil
    /\ sensor_error_count = 0 /\ mqtt_error_count = 0 /\ wifi_error_count = 0
    /\ free_mem = Nil
    /\ pc = "start"
    /\ passes = 0
    /\ feeds = 0
    /\ sampled = NotSampled
    /\ publish_history = << "none", "none" >>
    /\ trace = << >>

-----------------------------------------------------------------------------
(* Initializing: production_main_loop, 534-566 *)

\* 534-538: the first memory_management_aggressive
StartMemory(free) ==
    /\ pc = "start"
    /\ LET m == memory_management_aggressive(free)
       IN /\ display' = m.display
          /\ mqtt_client' = m.mqtt_client
          /\ mqtt_connected' = m.mqtt_connected
          /\ trace' = write_log("Production CO2 Monitor starting", "INFO") \o m.ev
          /\ pc' = IF m.reset THEN "reset" ELSE "init_watchdog"
    /\ free_mem' = Some(free)
    /\ UNCHANGED << sampled, publish_history, feeds, boot, timers, reading, watchdog, wlan, scd40, led,
                    sensor_error_count, mqtt_error_count, wifi_error_count,
                    now, passes >>

\* 539-540
StartWatchdog(ok) ==
    /\ pc = "init_watchdog"
    /\ LET w == init_watchdog(ok)
       IN /\ watchdog' = w.watchdog
          /\ trace' = w.ev \o feed_watchdog_safe(w.watchdog)
    /\ free_mem' = Nil
    /\ pc' = "init_wifi"
    /\ UNCHANGED << sampled, publish_history, feeds, boot, timers, reading, session, wlan, scd40, display, led,
                    sensor_error_count, wifi_error_count, now, passes >>

\* 542-545 rebooting when the link does not come up
after_wifi_strict(ret) == IF ret THEN "sync_time" ELSE "reset"

\* 542-545: a failed connect_wifi_robust is logged and Initializing goes on
after_wifi(ret) == "sync_time"

\* 542-545
StartWifi(link) ==
    /\ pc = "init_wifi"
    /\ LET w == connect_wifi_robust(link)
       IN /\ wlan' = w.wlan
          /\ wifi_error_count' = w.wifi_error_count
          /\ trace' = w.ev
                      \o (IF w.ret THEN << >>
                          ELSE write_log("WiFi init failed - proceeding in offline mode", "WARNING"))
                      \o feed_watchdog_safe(watchdog)
          /\ pc' = after_wifi(w.ret)
    /\ UNCHANGED << sampled, publish_history, feeds, boot, timers, reading, session, watchdog, scd40, display, led,
                    sensor_error_count, now, free_mem, passes >>

\* 546-548
StartTime(ok, step) ==
    /\ pc = "sync_time"
    /\ LET t == sync_time_safe(ok, step)
       IN /\ now' = t.now
          /\ clock_step' = clock_step + (t.now - now)
          /\ trace' = t.ev \o feed_watchdog_safe(watchdog)
    /\ pc' = "init_mqtt"
    /\ UNCHANGED << sampled, publish_history, feeds, LIBRARIES_STATUS, startup_time,
                    last_preventive_reset, timers, reading, session, watchdog, wlan, scd40, display,
                    led, sensor_error_count, wifi_error_count, free_mem, passes >>

\* 549-551
StartMqtt(answer) ==
    /\ pc = "init_mqtt"
    /\ LET m == connect_mqtt_robust(answer)
       IN /\ mqtt_client' = m.mqtt_client
          /\ mqtt_connected' = m.mqtt_connected
          /\ mqtt_error_count' = m.mqtt_error_count
          /\ trace' = m.ev \o feed_watchdog_safe(watchdog)
    /\ pc' = "init_sensor"
    /\ UNCHANGED << sampled, publish_history, feeds, boot, timers, reading, watchdog, wlan, scd40, display, led,
                    sensor_error_count, wifi_error_count, now, free_mem, passes >>

\* 552-555
StartSensor(device) ==
    /\ pc = "init_sensor"
    /\ LET d == init_sensor_robust(device)
       IN /\ scd40' = d.scd40
          /\ trace' = d.ev
                      \o (IF d.ret THEN << >>
                          ELSE write_log("Sensor init failed - display/network only mode", "WARNING"))
                      \o feed_watchdog_safe(watchdog)
    /\ pc' = "init_display"
    /\ UNCHANGED << sampled, publish_history, feeds, boot, timers, reading, session, watchdog, wlan, display, led,
                    sensor_error_count, wifi_error_count, now, free_mem, passes >>

\* 556
StartDisplay(ok) ==
    /\ pc = "init_display"
    /\ LET d == init_display_robust(ok)
       IN /\ display' = d.display
          /\ trace' = d.ev
    /\ pc' = "seed"
    /\ UNCHANGED << sampled, publish_history, feeds, boot, timers, reading, session, watchdog, wlan, scd40, led,
                    sensor_error_count, wifi_error_count, now, free_mem, passes >>

\* 558-566: "Initialize timers to trigger actions on the first loop"
SeedTimers ==
    /\ pc = "seed"
    /\ last_sensor_read' = now - SENSOR_READ_INTERVAL
    /\ last_publish' = now
    /\ last_gc' = now
    /\ last_connection_check' = now
    /\ last_status_report' = now
    /\ trace' = << >>
    /\ pc' = "loop"
    /\ UNCHANGED << sampled, publish_history, feeds, boot, reading, session, watchdog, wlan, scd40, display, led,
                    sensor_error_count, wifi_error_count, now, free_mem, passes >>

-----------------------------------------------------------------------------
(* Running: one pass of the while loop, 569-580 *)

\* 569-573 going from feed_watchdog_safe straight to run_monitoring_cycle
LoopTopThenSense(limit) ==
    /\ pc = "loop"
    /\ passes < limit
    /\ passes' = passes + 1
    /\ trace' = feed_watchdog_safe(watchdog)
    /\ feeds' = Len(feed_watchdog_safe(watchdog))
    /\ pc' = "sense"
    /\ UNCHANGED << sampled, publish_history, boot, timers, reading, session, watchdog, wlan, scd40, display,
                    led, sensor_error_count, wifi_error_count, now, free_mem >>

\* 569-570: a pass starts with feed_watchdog_safe
LoopTop(limit) ==
    /\ pc = "loop"
    /\ passes < limit
    /\ passes' = passes + 1
    /\ trace' = feed_watchdog_safe(watchdog)
    /\ feeds' = Len(feed_watchdog_safe(watchdog))
    /\ pc' = "display"
    /\ UNCHANGED << sampled, publish_history, boot, timers, reading, session, watchdog, wlan, scd40, display,
                    led, sensor_error_count, wifi_error_count, now, free_mem >>

\* 572: update_display_safe (392-422); display errors are ignored
UpdateDisplay ==
    /\ pc = "display"
    /\ trace' = (IF display # None THEN << "display.show" >> ELSE << >>)
    /\ pc' = "sense"
    /\ UNCHANGED << sampled, publish_history, feeds, boot, timers, reading, session, watchdog, wlan, scd40, display,
                    led, sensor_error_count, wifi_error_count, now, free_mem, passes >>

\* 522-526: the sensor part of run_monitoring_cycle
Sense(sensor, reinit) ==
    /\ pc = "sense"
    /\ IF now - last_sensor_read >= SENSOR_READ_INTERVAL
       THEN LET r == read_sensor_robust(sensor, reinit)
            IN /\ co2_ppm' = r.co2_ppm
               /\ temperature_c' = r.temperature_c
               /\ humidity_percent' = r.humidity_percent
               /\ thi_value' = r.thi_value
               /\ sensor_error_count' = r.sensor_error_count
               /\ scd40' = r.scd40
               /\ trace' = << "read_sensor_robust" >> \o r.ev
               /\ sampled' = IF scd40 # None THEN sensor ELSE NotSampled
               /\ last_sensor_read' = sensor_stamp(r.ret)
       ELSE /\ trace' = << >>
            /\ sampled' = NotSampled
            /\ UNCHANGED << reading, sensor_error_count, scd40, last_sensor_read >>
    /\ pc' = "publish"
    /\ UNCHANGED << publish_history, feeds, boot, session, watchdog, wlan, display, led, wifi_error_count,
                    now, free_mem, passes, last_publish, last_gc,
                    last_connection_check, last_status_report >>

\* 528-530: the publish part of run_monitoring_cycle
Publish(accepted) ==
    /\ pc = "publish"
    /\ IF now - last_publish >= PUBLISH_INTERVAL /\ co2_ppm # Nil
       THEN LET p == publish_data_robust(accepted)
            IN /\ mqtt_connected' = p.mqtt_connected
               /\ mqtt_error_count' = p.mqtt_error_count
               /\ trace' = << "publish_data_robust" >> \o p.ev
               /\ last_publish' = publish_stamp(p.ret)
               /\ publish_history' =
                     << publish_history[2],
                        IF p.ret THEN "sent" ELSE IF p.ev = << >> THEN "unsent" ELSE "failed" >>
       ELSE /\ trace' = << >>
            /\ publish_history' = << publish_history[2], "not_due" >>
            /\ UNCHANGED << mqtt_connected, mqtt_error_count, last_publish >>
    /\ pc' = "gc"
    /\ sampled' = NotSampled
    /\ UNCHANGED << feeds, boot, reading, mqtt_client, watchdog, wlan, scd40, display, led,
                    sensor_error_count, wifi_error_count, now, free_mem, passes,
                    last_sensor_read, last_gc, last_connection_check,
                    last_status_report >>

\* 504-508: the Resource Guard part of run_system_maintenance
Reclaim(free) ==
    /\ pc = "gc"
    /\ IF now - last_gc >= GC_INTERVAL
       THEN LET m == memory_management_aggressive(free)
            IN /\ display' = m.display
               /\ mqtt_client' = m.mqtt_client
               /\ mqtt_connected' = m.mqtt_connected
               /\ trace' = << "memory_management_aggressive" >> \o m.ev
               /\ free_mem' = Some(free)
               /\ last_gc' = IF m.reset THEN last_gc ELSE now
               /\ pc' = IF m.reset THEN "reset" ELSE "conn"
       ELSE /\ trace' = << >>
            /\ UNCHANGED << display, mqtt_client, mqtt_connected, free_mem, last_gc >>
            /\ pc' = "conn"
    /\ UNCHANGED << sampled, publish_history, feeds, boot, reading, mqtt_error_count, watchdog, wlan, scd40, led,
                    sensor_error_count, wifi_error_count, now, passes,
                    last_sensor_read, last_publish, last_connection_check,
                    last_status_report >>

\* 510-512: connectivity reconciliation; an exception of wlan.isconnected()
\* at 486 leaves the while loop for the handler at 582
Reconcile(isconnected, link, answer) ==
    /\ pc = "conn"
    /\ IF now - last_connection_check >= CONNECTION_RETRY_INTERVAL
       THEN LET c == check_connections_robust(isconnected, link, answer)
            IN /\ wlan' = c.wlan
               /\ wifi_error_count' = c.wifi_error_count
               /\ mqtt_client' = c.mqtt_client
               /\ mqtt_connected' = c.mqtt_connected
               /\ mqtt_error_count' = c.mqtt_error_count
               /\ trace' = << "check_connections_robust" >> \o c.ev
               /\ feeds' = feeds + Count(c.ev, "watchdog.feed")
               /\ last_connection_check' = IF c.raised THEN last_connection_check ELSE now
               /\ pc' = IF c.raised THEN "fatal" ELSE "status"
       ELSE /\ trace' = << >>
            /\ feeds' = feeds
            /\ UNCHANGED << wlan, wifi_error_count, session, last_connection_check >>
            /\ pc' = "status"
    /\ free_mem' = Nil
    /\ UNCHANGED << sampled, publish_history, boot, reading, watchdog, scd40, display, led, sensor_error_count,
                    now, passes, last_sensor_read, last_publish, last_gc,
                    last_status_report >>

\* 514-516: the hourly status report
Status(accepted) ==
    /\ pc = "status"
    /\ IF now - last_status_report >= STATUS_REPORT_INTERVAL
       THEN /\ trace' = << "send_system_status" >> \o send_system_status(accepted)
            /\ last_status_report' = now
       ELSE /\ trace' = << >>
            /\ UNCHANGED last_status_report
    /\ pc' = "preventive"
    /\ UNCHANGED << sampled, publish_history, feeds, boot, reading, session, watchdog, wlan, scd40, display, led,
                    sensor_error_count, wifi_error_count, now, free_mem, passes,
                    last_sensor_read, last_publish, last_gc, last_connection_check >>

\* 518: preventive_system_reset
Preventive ==
    /\ pc = "preventive"
    /\ LET ev == preventive_system_reset(now)
       IN /\ trace' = << "preventive_system_reset" >> \o ev
          /\ pc' = IF ev # << >> THEN "reset" ELSE "blink"
    /\ UNCHANGED << sampled, publish_history, feeds, boot, timers, reading, session, watchdog, wlan, scd40, display,
                    led, sensor_error_count, wifi_error_count, now, free_mem, passes >>

\* 577-578
BlinkOn ==
    /\ pc = "blink"
    /\ led' = "on"
    /\ trace' = << "led.on" >>
    /\ pc' = "blink_off"
    /\ UNCHANGED << sampled, publish_history, feeds, boot, timers, reading, session, watchdog, wlan, scd40, display,
                    sensor_error_count, wifi_error_count, now, free_mem, passes >>

\* 579-580 and back to 569; the next pass starts seconds after this one did
BlinkOff(seconds) ==
    /\ pc = "blink_off"
    /\ led' = "off"
    /\ now' = now + seconds
    /\ trace' = << "led.off" >>
    /\ feeds' = 0
    /\ pc' = "loop"
    /\ UNCHANGED << sampled, publish_history, boot, timers, reading, session, watchdog, wlan, scd40, display,
                    sensor_error_count, wifi_error_count, free_mem, passes >>

\* 582-585: the handler of an exception that left the while loop.
\* machine.reset() does not return, so the finally block at 586-593
\* ("System shutdown", led.off(), mqtt_client.disconnect()) is not run.
Fatal ==
    /\ pc = "fatal"
    /\ trace' = write_log("FATAL SYSTEM ERROR", "CRITICAL") \o << "machine.reset" >>
    /\ pc' = "reset"
    /\ UNCHANGED << sampled, publish_history, feeds, boot, timers, reading, session, watchdog, wlan, scd40, display,
                    led, sensor_error_count, wifi_error_count, now, free_mem, passes >>

-----------------------------------------------------------------------------
(* Specifications *)

\* Initializing, with the answers the collaborators may give
Initializing(mems, watchdogs, links, syncs, steps, answers, devices, displays) ==
    \/ \E free \in mems : StartMemory(free)
    \/ \E ok \in watchdogs : StartWatchdog(ok)
    \/ \E link \in links : StartWifi(link)
    \/ \E ok \in syncs, step \in steps : StartTime(ok, step)
    \/ \E answer \in answers : StartMqtt(answer)
    \/ \E device \in devices : StartSensor(device)
    \/ \E ok \in displays : StartDisplay(ok)
    \/ SeedTimers

\* Running, at most limit passes, with the answers the collaborators may give
Running(limit, sensors, devices, accepts, mems, probes, links, answers, seconds) ==
    \/ LoopTop(limit)
    \/ UpdateDisplay
    \/ \E sensor \in sensors, reinit \in devices : Sense(sensor, reinit)
    \/ \E accepted \in accepts : Publish(accepted)
    \/ \E free \in mems : Reclaim(free)
    \/ \E isconnected \in probes, link \in links, answer \in answers :
          Reconcile(isconnected, link, answer)
    \/ \E accepted \in accepts : Status(accepted)
    \/ Preventive
    \/ BlinkOn
    \/ \E s \in seconds : BlinkOff(s)
    \/ Fatal

BrokerAnswers == {"ok", "refused"}
SensorDevices == {"ok", "absent", "stuck"}
LinkProbes == {"yes", "no", "raise"}

\* Spec: every collaborator may give any of its answers at every call
Init == InitWith({AllLibraries, NoBroker})

Next ==
    \/ Initializing(MemSamples, BOOLEAN, LinkOutcomes, BOOLEAN, NtpSteps,
                    BrokerAnswers, SensorDevices, BOOLEAN)
    \/ Running(MaxPass, SensorOutcomes, SensorDevices, BOOLEAN, MemSamples,
               LinkProbes, LinkOutcomes, BrokerAnswers, PassSeconds)

Spec == Init /\ [][Next]_vars

\* SpecSteady: the device boots with every subsystem up (memory free, the
\* watchdog armed, the link joined, the clock in step, broker, sensor and
\* display answering), after which every collaborator may give any answer
InitSteady == InitWith({AllLibraries})

NextSteady ==
    \/ Initializing({20001}, {TRUE}, {[kind |-> "join", polls |-> 0]}, {TRUE}, {0},
                    {"ok"}, {"ok"}, {TRUE})
    \/ Running(MaxSteadyPass, SensorOutcomes, SensorDevices, BOOLEAN, MemSamples,
               LinkProbes, LinkOutcomes, BrokerAnswers, PassSeconds)

SpecSteady == InitSteady /\ [][NextSteady]_vars

\* SpecOutage: a long run of reconciliation passes, one every
\* CONNECTION_RETRY_INTERVAL, in which the broker may refuse every connect
\* and every publish; memory stays free and the link stays up or breaks
OutageSamples ==
    { [kind |-> "not_ready", s |-> Sample(Nil, Nil, Nil, Nil)],
      [kind |-> "data", s |-> Sample(Some(800), Some(220), Some(550), Nil)] }

InitOutage == InitWith({AllLibraries})

NextOutage ==
    \/ Initializing({20001}, {TRUE}, {[kind |-> "join", polls |-> 0]}, {TRUE}, {0},
                    BrokerAnswers, {"ok"}, {TRUE})
    \/ Running(MaxOutagePass, OutageSamples, {"ok"}, BOOLEAN, {20001},
               {"yes", "raise"}, {[kind |-> "join", polls |-> 0]}, BrokerAnswers,
               {CONNECTION_RETRY_INTERVAL})

SpecOutage == InitOutage /\ [][NextOutage]_vars

\* SpecSensorFaults: a long run of sensor reads, one every
\* SENSOR_READ_INTERVAL, on a device with the sensor library only; the sensor
\* may give any answer at every read
InitSensorFaults == InitWith({SensorOnly})

NextSensorFaults ==
    \/ Initializing({20001}, {TRUE}, {[kind |-> "join", polls |-> 0]}, {TRUE}, {0},
                    {"ok"}, {"ok"}, {TRUE})
    \/ Running(MaxSensorPass, SensorOutcomes, SensorDevices, {TRUE}, {20001},
               {"yes", "raise"}, {[kind |-> "join", polls |-> 0]}, {"ok"},
               {SENSOR_READ_INTERVAL})

SpecSensorFaults == InitSensorFaults /\ [][NextSensorFaults]_vars

\* SpecDegraded: any part of Initializing may fail (no interface, no link,
\* no time, no broker, no sensor, no display, no watchdog), after which the
\* device runs reconciliation passes with the link and the broker giving any
\* answer; SpecDegradedLive adds that the program keeps taking steps (it is
\* one thread, and every call it makes returns or raises)
InitDegraded == InitWith({AllLibraries, NoBroker, SensorOnly})

NextDegraded ==
    \/ Initializing(MemSamples, BOOLEAN, DegradedLinkOutcomes, BOOLEAN, NtpSteps,
                    BrokerAnswers, SensorDevices, BOOLEAN)
    \/ Running(MaxDegradedPass, OutageSamples, {"ok"}, {TRUE}, {20001},
               LinkProbes, DegradedLinkOutcomes, BrokerAnswers,
               {SENSOR_READ_INTERVAL, CONNECTION_RETRY_INTERVAL})

SpecDegraded == InitDegraded /\ [][NextDegraded]_vars

SpecDegradedLive == SpecDegraded /\ WF_vars(NextDegraded)

\* SpecSession: the device boots with every subsystem up and runs passes a
\* minute or nearly an hour apart, so that the hourly status report falls due
\* both right after a reconciliation and between two of them; the Resource
\* Guard may find memory critical, the broker may refuse publishes and
\* connects
SessionSeconds == {GC_INTERVAL, STATUS_REPORT_INTERVAL - GC_INTERVAL, STATUS_REPORT_INTERVAL}

InitSession == InitWith({AllLibraries})

NextSession ==
    \/ Initializing({20001}, {TRUE}, {[kind |-> "join", polls |-> 0]}, {TRUE}, {0},
                    BrokerAnswers, {"ok"}, {TRUE})
    \/ Running(MaxSessionPass, OutageSamples, {"ok"}, BOOLEAN,
               {MEMORY_CRITICAL_THRESHOLD - 1, MEMORY_WARNING_THRESHOLD + 1},
               {"yes", "raise"}, {[kind |-> "join", polls |-> 0]}, BrokerAnswers,
               SessionSeconds)

SpecSession == InitSession /\ [][NextSession]_vars

-----------------------------------------------------------------------------
(* Claims *)

OutOfRange(co2) == co2 # Nil /\ (co2[1] < 0 \/ co2[1] > CO2_MAX)

\* the sensor was read in the step just taken and answered with a sample
\* whose co2 is outside [0, 50000]
RejectedSample == pc = "sense" /\ sampled'.kind = "data" /\ OutOfRange(sampled'.s.CO2)

\* C1: a sample whose co2 is outside [0, 50000] leaves the stored Reading
\* (co2_ppm, temperature_c, humidity_percent, thi_value) as it was and adds
\* one to the sensor failure counter.
C1_RejectedSampleKeepsReading ==
    [][ RejectedSample =>
          /\ reading' = reading
          /\ sensor_error_count' = sensor_error_count + 1 ]_vars

\* C3: whenever the process reboots, the broker session has been torn down
\* (disconnect() on a session handle that is present) and the LED switched
\* off before machine.reset().
C3_TeardownBeforeReboot ==
    pc = "reset" =>
      /\ led = "off"
      /\ mqtt_client # None => Before(trace, "mqtt.disconnect", "machine.reset")

\* C6: when Initializing ends, every periodic task (sensor read, publish,
\* reclamation, connectivity reconciliation, status report) is due on the
\* first pass.
C6_AllTasksDueOnFirstPass ==
    (pc = "loop" /\ passes = 0) =>
      /\ now - last_sensor_read >= SENSOR_READ_INTERVAL
      /\ now - last_publish >= PUBLISH_INTERVAL
      /\ now - last_gc >= GC_INTERVAL
      /\ now - last_connection_check >= CONNECTION_RETRY_INTERVAL
      /\ now - last_status_report >= STATUS_REPORT_INTERVAL

\* polls of the loop at 248 that found the link down, among the calls tr
UnsuccessfulPolls(tr) ==
    Count(tr, "wlan.poll") - (IF Has(tr, "log:INFO:WiFi connected") THEN 1 ELSE 0)

\* C4 as claimed: at the end of every pass of an armed watchdog, it was fed
\* exactly once in that pass.
C4_FedOncePerPass ==
    (pc = "blink" /\ watchdog # None) => feeds = 1

\* C4 as amended: an armed watchdog is fed once by the step that starts the
\* pass, once more for every poll of a link connection attempt of that pass
\* that finds the link down, and by no other step; a watchdog that is not
\* armed is never fed.
C4_FeedsPerPass ==
    [][ passes' > 0 =>
          LET fed == Count(trace', "watchdog.feed")
              armed == watchdog # None
          IN /\ pc = "loop" => fed = (IF armed THEN 1 ELSE 0) /\ feeds' = fed
             /\ pc = "conn" =>
                  /\ fed = (IF armed THEN UnsuccessfulPolls(trace') ELSE 0)
                  /\ feeds' = feeds + fed
             /\ pc \notin {"loop", "conn"} => fed = 0
             /\ pc \notin {"loop", "conn", "blink_off"} => feeds' = feeds ]_vars

\* C4 witness: a pass in which the link connection attempt timed out
C4_FedDuringLinkWait == pc = "status" /\ watchdog # None /\ feeds = 1 + WIFI_POLLS

\* the step just taken ran memory_management_aggressive
GuardChecked == pc \in {"start", "gc"} /\ free_mem' # Nil

\* C7: the Resource Guard maps the free memory it observes to one zone
\* action: >= 20000 nothing; [12000, 20000) the MEMORY_WARNING log entry and
\* nothing else; [8000, 12000) the broker handle released and the broker
\* Disconnected, no reboot; < 8000 the reboot path.
C7_ZoneAction ==
    [][ GuardChecked =>
          LET free == free_mem'[1]
              kept == << display, mqtt_client, mqtt_connected >>' =
                      << display, mqtt_client, mqtt_connected >>
              warned == Has(trace', "log:WARNING:MEMORY_WARNING")
              critical == Has(trace', "log:WARNING:MEMORY_CRITICAL")
              emergency == Has(trace', "log:CRITICAL:EMERGENCY_RESET")
              reboot == Has(trace', "machine.reset") \/ pc' = "reset"
          IN /\ free >= 20000 =>
                  kept /\ ~warned /\ ~critical /\ ~emergency /\ ~reboot
             /\ (free >= 12000 /\ free < 20000) =>
                  kept /\ warned /\ ~critical /\ ~emergency /\ ~reboot
                  /\ ~Has(trace', "mqtt.disconnect")
             /\ (free >= 8000 /\ free < 12000) =>
                  /\ mqtt_client' = None /\ mqtt_connected' = FALSE
                  /\ display' = display
                  /\ mqtt_client # None => Has(trace', "mqtt.disconnect")
                  /\ critical /\ ~warned /\ ~emergency /\ ~reboot
             /\ free < 8000 =>
                  /\ emergency /\ ~warned /\ ~critical
                  /\ Has(trace', "machine.reset") /\ pc' = "reset" ]_vars

\* C7 witness: the guard saw 11999 bytes and tore the broker session down
C7_SessionTornDown ==
    /\ pc = "conn" /\ free_mem = Some(11999)
    /\ Has(trace, "mqtt.disconnect") /\ mqtt_client = None /\ ~mqtt_connected

\* C8: when the Resource Guard sees free memory below 8000 the display handle
\* is released, the CRITICAL entry is logged and machine.reset() is the last
\* call made: no step of the program follows it.
C8_EmergencyReboot ==
    [][ /\ pc # "reset"
        /\ (GuardChecked /\ free_mem'[1] < MEMORY_EMERGENCY_THRESHOLD) =>
             /\ display' = None
             /\ Has(trace', "log:CRITICAL:EMERGENCY_RESET")
             /\ trace'[Len(trace')] = "machine.reset"
             /\ pc' = "reset" ]_vars

\* C8 witness: a pass saw 7500 bytes, blanked and released the display, and
\* the process is gone
C8_RebootedAt7500 ==
    /\ pc = "reset" /\ passes > 0 /\ free_mem = Some(7500)
    /\ Has(trace, "display.show") /\ display = None

\* C10: the stored comfort index is present iff the stored temperature and
\* the stored humidity are both present.
C10_ThiIffBoth ==
    thi_value # Nil <=> (temperature_c # Nil /\ humidity_percent # Nil)

\* C10 witness: a sample without humidity was stored after one with it
C10_HumidityMissing ==
    /\ passes > 1 /\ co2_ppm # Nil
    /\ temperature_c # Nil /\ humidity_percent = Nil /\ thi_value = Nil


\* C2: the broker failure counter never exceeds MAX_MQTT_FAILURES (10),
\* whatever sequence of failed connects and failed publishes the broker
\* produces.
C2_BrokerFailuresBounded == mqtt_error_count <= MAX_MQTT_FAILURES

\* the publish step of a pass that follows a pass whose due publish failed
RetryStep == pc = "publish" /\ pc' = "gc" /\ publish_history[2] = "failed"

SensorFailure(n) ==
    pc = "sense" /\ pc' = "publish" /\ sampled'.kind = "error" /\ sensor_error_count = n

\* C9: the sensor failure counter is below MAX_SENSOR_FAILURES (15) between
\* read operations, so it never reaches 20; a failed read with fewer than 14
\* failures counted adds one and leaves the sensor alone, and the failed read
\* that is the 15th reinitializes the sensor and sets the counter to zero.
C9_ReinitAtLimit ==
    [][ /\ sensor_error_count < MAX_SENSOR_FAILURES
        /\ sensor_error_count' < MAX_SENSOR_FAILURES
        /\ \A n \in 0..(MAX_SENSOR_FAILURES - 2) : SensorFailure(n) =>
              /\ sensor_error_count' = n + 1
              /\ scd40' = scd40
              /\ ~Has(trace', "SCD4X")
        /\ SensorFailure(MAX_SENSOR_FAILURES - 1) =>
              /\ sensor_error_count' = 0
              /\ Count(trace', "SCD4X") = 1
              /\ Has(trace', "log:WARNING:Sensor failure limit reached, reinitializing") ]_vars

\* C9 witness: the 15th failed read in a row has reinitialized the sensor
C9_SensorReinitialized ==
    /\ pc = "publish"
    /\ sampled.kind = "error"
    /\ passes = MAX_SENSOR_FAILURES
    /\ sensor_error_count = 0
    /\ Has(trace, "log:WARNING:Sensor failure limit reached, reinitializing")
    /\ Has(trace, "SCD4X")


\* C11: in the Running loop last_publish changes only in the publish step of
\* a pass whose publish was due, made both broker calls and raised no error,
\* and then it becomes the pass time; a failed publish, a publish without a
\* session, a pass without a co2 reading and a pass before the interval has
\* elapsed leave it as it was.
C11_StampOnlyOnSuccess ==
    [][ passes' > 0 =>
          /\ last_publish' # last_publish =>
                /\ pc = "publish"
                /\ now - last_publish >= PUBLISH_INTERVAL
                /\ co2_ppm # Nil
                /\ mqtt_connected
                /\ trace' = << "publish_data_robust", "mqtt.publish:co2_data",
                               "mqtt.publish:sensor_data" >>
                /\ last_publish' = now
          /\ (pc = "publish" /\ publish_history'[2] \in {"failed", "unsent", "not_due"}) =>
                last_publish' = last_publish ]_vars

\* C11 witness: a due publish has failed at the broker and last_publish is
\* still a full interval old
C11_FailedPublishKeptStamp ==
    /\ pc = "gc"
    /\ publish_history[2] = "failed"
    /\ Has(trace, "log:ERROR:MQTT publish error")
    /\ now - last_publish >= PUBLISH_INTERVAL


\* seconds the device has been running since ProductionCO2Monitor() was
\* constructed: the clock less what the time sync moved it by
Uptime == now - clock_step - startup_time

\* C12: a preventive reboot happens only when at least SYSTEM_RESET_INTERVAL
\* (86400) seconds of uptime have elapsed, a time sync during Initializing
\* notwithstanding.
C12_RebootOnlyAfterUptime ==
    (pc = "reset" /\ Has(trace, "log:INFO:Preventive system reset")) =>
        Uptime >= SYSTEM_RESET_INTERVAL


\* among the calls tr, connect_wifi_robust was called and isconnected()
\* answered True at 236
AlreadyUp(tr) ==
    \E i, j \in 1..Len(tr) :
        i < j /\ tr[i] = "connect_wifi_robust" /\ tr[j] = "wlan.isconnected:True"

C14_FaultsAbsorbed ==
    (pc = "reset" /\ passes > 0) =>
        \/ Has(trace, "log:CRITICAL:EMERGENCY_RESET")
        \/ Has(trace, "log:INFO:Preventive system reset")


\* C15: once the first memory check has let Initializing go on, Initializing
\* reaches the Running loop whatever the watchdog, the link, the time sync,
\* the broker, the sensor and the display do; none of their failures reboots
\* the device or keeps it out of the loop.
C15_InitializingReachesRunning ==
    (pc = "init_watchdog") ~> (pc = "loop" /\ passes = 0)

\* C15 witness: the loop is entered with no watchdog, no interface, no
\* broker session, no sensor and no display
C15_RunningWithNothing ==
    /\ pc = "loop" /\ passes = 0
    /\ watchdog = None /\ wlan = None /\ ~mqtt_connected
    /\ scd40 = None /\ display = None
    /\ wifi_error_count = 1 /\ mqtt_error_count = 1


\* the steps of one pass, in the order the claim gives them
PassOrder ==
    << "loop", "display", "sense", "publish", "gc", "conn", "status",
       "preventive", "blink", "blink_off" >>

Rank(p) == CHOOSE i \in 1..Len(PassOrder) : PassOrder[i] = p

InPass(p) == \E i \in 1..Len(PassOrder) : PassOrder[i] = p

\* C16: every pass of the Running loop starts with the watchdog feed and
\* nothing else, then refreshes the display, then senses, then publishes,
\* then runs the Resource Guard check, the connectivity reconciliation, the
\* status report and the preventive reboot check, in that order; each of
\* these methods is called in its own step of the pass and nowhere else.
C16_PassOrder ==
    [][ passes' > 0 =>
          /\ (InPass(pc) /\ pc' \notin {"reset", "fatal"}) =>
                pc' = PassOrder[(Rank(pc) % Len(PassOrder)) + 1]
          /\ pc = "loop" => trace' \in { << >>, << "watchdog.feed" >> }
          /\ pc = "display" => trace' \in { << >>, << "display.show" >> }
          /\ Has(trace', "read_sensor_robust") => pc = "sense"
          /\ Has(trace', "publish_data_robust") => pc = "publish"
          /\ Has(trace', "memory_management_aggressive") => pc = "gc"
          /\ Has(trace', "check_connections_robust") => pc = "conn"
          /\ Has(trace', "send_system_status") => pc = "status"
          /\ Has(trace', "preventive_system_reset") => pc = "preventive" ]_vars

\* C16 witness: a pass that has sensed, published, checked memory and
\* reconciled connectivity, and is about to run the status step
C16_FullPass ==
    /\ pc = "status"
    /\ last_sensor_read = now
    /\ publish_history[2] \in {"sent", "failed"}
    /\ last_gc = now
    /\ Has(trace, "check_connections_robust")


\* the step just taken called connect_mqtt_robust with the umqtt library
\* available
BrokerConnectTried == Has(trace', "connect_mqtt_robust") /\ LIBRARIES_STATUS.umqtt

\* C17: connect_mqtt_robust with the broker library available disconnects a
\* session handle it holds before it creates the new client (and makes no
\* disconnect when it holds none), then connects; when the connect succeeds
\* the broker is Connected and the broker failure counter 0, when it fails
\* the broker is Disconnected and the counter one more than before.
C17_CleanupThenConnect ==
    [][ BrokerConnectTried =>
          /\ Count(trace', "MQTTClient") = 1
          /\ Before(trace', "MQTTClient", "mqtt.connect")
          /\ IF mqtt_client # None
             THEN Count(trace', "mqtt.disconnect") = 1
                  /\ Before(trace', "mqtt.disconnect", "MQTTClient")
             ELSE ~Has(trace', "mqtt.disconnect")
          /\ mqtt_client' # None
          /\ Has(trace', "log:INFO:MQTT connected") # Has(trace', "log:ERROR:MQTT error")
          /\ Has(trace', "log:INFO:MQTT connected") =>
                mqtt_connected' /\ mqtt_error_count' = 0
          /\ Has(trace', "log:ERROR:MQTT error") =>
                ~mqtt_connected' /\ mqtt_error_count' = mqtt_error_count + 1 ]_vars

\* C17 witness: a reconnect that disconnected the old session and was
\* refused for the third time in a row
C17_ThirdRefusal ==
    /\ pc = "status"
    /\ Has(trace, "mqtt.disconnect")
    /\ Has(trace, "log:ERROR:MQTT error")
    /\ ~mqtt_connected
    /\ mqtt_error_count = 3


\* C18: a pass whose clock is at least SENSOR_READ_INTERVAL (30) past
\* last_sensor_read calls read_sensor_robust once, which asks the sensor at
\* most once, and sets last_sensor_read to the pass time whatever the sensor
\* answered; no other step of the loop asks the sensor or moves
\* last_sensor_read, so two reads are at least 30 seconds apart.
C18_FixedCadence ==
    [][ passes' > 0 =>
          /\ (pc = "sense" /\ now - last_sensor_read >= SENSOR_READ_INTERVAL) =>
                /\ Count(trace', "read_sensor_robust") = 1
                /\ Count(trace', "sensor.data_ready") = (IF scd40 # None THEN 1 ELSE 0)
                /\ last_sensor_read' = now
          /\ (pc = "sense" /\ now - last_sensor_read < SENSOR_READ_INTERVAL) =>
                /\ ~Has(trace', "read_sensor_robust")
                /\ last_sensor_read' = last_sensor_read
          /\ pc # "sense" =>
                /\ ~Has(trace', "read_sensor_robust")
                /\ ~Has(trace', "sensor.data_ready")
                /\ last_sensor_read' = last_sensor_read ]_vars

\* C18 witness: the second read of a run raised an error and moved
\* last_sensor_read to the pass time all the same
C18_StampAfterError ==
    /\ pc = "publish"
    /\ passes = 2
    /\ sampled.kind = "error"
    /\ sensor_error_count > 0
    /\ last_sensor_read = now


\* among the calls tr, connect_wifi_robust went past the check at 236 and
\* asked the interface to connect
LinkAttempt(tr) == Has(tr, "connect_wifi_robust") /\ Has(tr, "wlan.connect")

\* C19: a connection attempt from a link that is down polls at most
\* WIFI_POLLS (30) times and feeds an armed watchdog after every poll that
\* finds the link down; when no poll finds it up the link failure counter
\* grows by exactly one, the failure is returned and the program goes on
\* without a reboot; when a poll finds it up the counter becomes 0.
C19_BoundedLinkWait ==
    [][ LinkAttempt(trace') =>
          LET polls == Count(trace', "wlan.poll")
              fed == Count(trace', "watchdog.feed")
              after == IF pc = "init_wifi" THEN 1 ELSE 0
              joined == Has(trace', "log:INFO:WiFi connected")
              timeout == Has(trace', "log:ERROR:WiFi timeout")
              raised == Has(trace', "log:ERROR:WiFi error")
          IN /\ polls <= WIFI_POLLS
             /\ fed = (IF watchdog # None THEN UnsuccessfulPolls(trace') + after ELSE 0)
             /\ (IF joined THEN 1 ELSE 0) + (IF timeout THEN 1 ELSE 0)
                  + (IF raised THEN 1 ELSE 0) = 1
             /\ joined => wifi_error_count' = 0 /\ UnsuccessfulPolls(trace') < WIFI_POLLS
             /\ timeout =>
                  /\ UnsuccessfulPolls(trace') = WIFI_POLLS
                  /\ wifi_error_count' = wifi_error_count + 1
                  /\ pc = "init_wifi" =>
                        Has(trace', "log:WARNING:WiFi init failed - proceeding in offline mode")
             /\ raised => wifi_error_count' = wifi_error_count + 1
             /\ ~Has(trace', "machine.reset")
             /\ pc' \in {"sync_time", "status"} ]_vars

\* C19 witness: the attempt made by a reconciliation timed out after the one
\* made during Initializing had timed out too
C19_SecondTimeout ==
    /\ pc = "status"
    /\ Has(trace, "log:ERROR:WiFi timeout")
    /\ Count(trace, "wlan.poll") = WIFI_POLLS
    /\ wifi_error_count = 2


\* C20: check_connections_robust is called exactly in the reconciliation
\* step of a pass whose clock is at least CONNECTION_RETRY_INTERVAL (300)
\* past last_connection_check, which then becomes the pass time; when the
\* link has answered (or no interface is held) it calls connect_wifi_robust
\* iff the link is not connected, and after that connect_mqtt_robust iff the
\* broker is not Connected and the umqtt library is available, whatever the
\* link attempt returned.
C20_Reconciliation ==
    [][ passes' > 0 =>
          LET ran == Has(trace', "check_connections_robust")
              due == now - last_connection_check >= CONNECTION_RETRY_INTERVAL
              raised == Has(trace', "wlan.isconnected:raise")
              down == wlan = None
                      \/ (Len(trace') > 1 /\ trace'[2] = "wlan.isconnected:False")
              link == Has(trace', "connect_wifi_robust")
              broker == Has(trace', "connect_mqtt_robust")
          IN /\ ran <=> (pc = "conn" /\ due)
             /\ ~ran => /\ last_connection_check' = last_connection_check
                        /\ ~link /\ ~broker
             /\ (ran /\ ~raised) =>
                   /\ last_connection_check' = now
                   /\ link <=> down
                   /\ broker <=> (~mqtt_connected /\ LIBRARIES_STATUS.umqtt)
                   /\ (link /\ broker) =>
                         Before(trace', "connect_wifi_robust", "connect_mqtt_robust") ]_vars

\* C20 witness: a reconciliation whose link attempt timed out went on to
\* reconnect the broker
C20_BrokerTriedWithoutLink ==
    /\ pc = "status"
    /\ Has(trace, "log:ERROR:WiFi timeout")
    /\ Has(trace, "log:INFO:MQTT connected")
    /\ mqtt_connected


\* C21: the co2 value publish_data_robust reads from the stored Reading and
\* sends to the CO2 topic and the combined-sensor topic is never outside
\* [0, 50000].
C21_PublishedCo2InRange ==
    [][ (pc = "publish"
         /\ (Has(trace', "mqtt.publish:co2_data") \/ Has(trace', "mqtt.publish:sensor_data")))
        => ~OutOfRange(co2_ppm) ]_vars


\* the calls tr include a publish to the broker
BrokerPublish(tr) ==
    \/ Has(tr, "mqtt.publish:co2_data")
    \/ Has(tr, "mqtt.publish:sensor_data")
    \/ Has(tr, "mqtt.publish:system_status")

\* C22: whenever the broker is Connected (mqtt_connected) a session handle is
\* held (mqtt_client is not None), and every publish of a reading or of a
\* status report is made on a handle that is held.
C22_ConnectedHasHandle ==
    /\ mqtt_connected => mqtt_client # None
    /\ BrokerPublish(trace) => mqtt_client # None

\* C22 witness: the status report fell due after the Resource Guard had
\* released the session handle, and made no publish
C22_StatusSkippedWithoutHandle ==
    /\ pc = "preventive"
    /\ trace = << "send_system_status" >>
    /\ mqtt_client = None
    /\ ~mqtt_connected
    /\ mqtt_error_count = 0

====
